---- MODULE Spec2Model ----
(***************************************************************************)
(* Happy Solar reporting: the status page (api/index.py), the Kixie call   *)
(* dashboard (kixie_dashboard.py) and the opportunities dashboard          *)
(* (sales_dashboard.py), modelled as state machines.                       *)
(*                                                                         *)
(* A document is a record holding exactly the fields the Firestore         *)
(* document has (a Python dict); a DataFrame is [cols, rows, dt]: the      *)
(* column set, the rows in fetch order, and whether the callDate column    *)
(* has been converted to datetime.  A row lacks a key where the frame      *)
(* holds NaN / None / NaT.                                                 *)
(***************************************************************************)
EXTENDS Integers, Sequences, FiniteSets, TLC

VARIABLES
    app,      \* which of the three programs this process is
    db,       \* module-level db: TRUE = Firestore client, FALSE = None
    df,       \* module-level df of the dashboards (the current dataset)
    kpi,      \* KPI cards built into app.layout of sales_dashboard.py
    cycle,    \* inputs and locals of the callback that returned last
    view,     \* what the last callback / request returned (or raised)
    pc,       \* per callback: its position inside update_dashboard
    loc       \* per callback: its inputs and locals

vars == <<app, db, df, kpi, cycle, view, pc, loc>>

(***************************************************************************)
(* Bounds                                                                  *)
(***************************************************************************)
MaxRows == 3          \* documents in a collection at one fetch
MaxCount == 2         \* largest document count a count() query answers
MaxCalls == 80        \* largest call count the rate formatter is applied to alone
MaxGroups == 16       \* distinct values of a column that is counted alone
MaxTags == 13         \* distinct tags of a tags column that is ranked alone
Clicks == {0, 1}      \* n_clicks / n_intervals: never clicked, clicked

(***************************************************************************)
(* Sequence helpers                                                        *)
(***************************************************************************)
RECURSIVE SumSeq(_)
SumSeq(s) == IF s = <<>> THEN 0 ELSE Head(s) + SumSeq(Tail(s))

RECURSIVE FirstSeen(_)
\* distinct values in order of first appearance (hash-table order of pandas)
FirstSeen(s) ==
    IF s = <<>> THEN <<>>
    ELSE LET r == FirstSeen(SubSeq(s, 1, Len(s) - 1))
             x == s[Len(s)]
         IN IF \E i \in 1..Len(r) : r[i] = x THEN r ELSE Append(r, x)

CountOf(s, v) == Cardinality({i \in 1..Len(s) : s[i] = v})

RECURSIVE InsertDesc(_, _, _)
\* insert x after every element whose key column is >= x's
InsertDesc(s, x, by) ==
    IF s = <<>> THEN <<x>>
    ELSE IF Head(s)[by] >= x[by] THEN <<Head(s)>> \o InsertDesc(Tail(s), x, by)
         ELSE <<x>> \o s

RECURSIVE SortDesc(_, _)
\* sort_values(by, ascending=False): non-increasing by key, ties keep order
SortDesc(s, by) ==
    IF s = <<>> THEN <<>>
    ELSE InsertDesc(SortDesc(SubSeq(s, 1, Len(s) - 1), by), s[Len(s)], by)

RECURSIVE SetToSeq(_)
\* the members of a set of integers in ascending order
SetToSeq(S) ==
    IF S = {} THEN <<>>
    ELSE LET m == CHOOSE x \in S : \A y \in S : x <= y
         IN <<m>> \o SetToSeq(S \ {m})

Head_n(s, n) == IF Len(s) <= n THEN s ELSE SubSeq(s, 1, n)

(***************************************************************************)
(* The kixie_calls collection: documents a fetch can stream, by id.        *)
(***************************************************************************)
Ts(d, s) == [day |-> d, sec |-> s]          \* a parsable timestamp text
BadTs == [text |-> "n/a"]                   \* an unparsable callDate value
None == [none |-> TRUE]                     \* Python None as an input

KixieDocs == <<
    [id |-> 1, agent |-> "A", outcome |-> "connected", duration |-> 120,
     callDate |-> Ts(1, 32400)],
    [id |-> 2, agent |-> "A", outcome |-> "no-answer", duration |-> 0,
     callDate |-> BadTs],
    [id |-> 3, agent |-> "B", outcome |-> "connected", duration |-> 300,
     callDate |-> Ts(2, 86399)],
    [id |-> 4, agent |-> "B", outcome |-> "answered", duration |-> 3600],
    [id |-> 5, outcome |-> "success", callDate |-> Ts(3, 0)]
>>

\* the strings that get sorted as group keys, in Python's string order
StringOrder == <<"A", "B", "C", "East", "West", "door", "web">>

\* what the Record Source answers to one stream(): an error, or the
\* documents currently in the collection (ordered by document id)
Collections(docs) ==
    {S \in SUBSET (1..Len(docs)) : Cardinality(S) <= MaxRows}
Stream(docs, S) == [i \in 1..Cardinality(S) |-> docs[SetToSeq(S)[i]]]
Answers(docs) ==
    {[ok |-> FALSE, docs |-> <<>>]}
    \cup {[ok |-> TRUE, docs |-> Stream(docs, S)] : S \in Collections(docs)}

KixieAnswers == Answers(KixieDocs)

(***************************************************************************)
(* DataFrame construction                                                  *)
(***************************************************************************)
\* fdur: the duration column is float64 (some record lacks the field, so the
\* column holds NaN) instead of int64
EmptyFrame == [cols |-> {}, rows |-> <<>>, dt |-> FALSE, fdur |-> FALSE]

DataFrame(records) ==
    [cols |-> UNION {DOMAIN records[i] : i \in 1..Len(records)},
     rows |-> records, dt |-> FALSE,
     fdur |-> /\ \E i \in 1..Len(records) : "duration" \in DOMAIN records[i]
              /\ \E i \in 1..Len(records) : "duration" \notin DOMAIN records[i]]

Columns(cs) == [cols |-> cs, rows |-> <<>>, dt |-> FALSE, fdur |-> FALSE]

Empty(t) == Len(t.rows) = 0 \/ t.cols = {}

NotNa(row, col) == col \in DOMAIN row

\* fetch_calls / fetch_contacts
Fetch(client, answer) ==
    IF ~client THEN EmptyFrame
    ELSE IF ~answer.ok THEN EmptyFrame
    ELSE DataFrame(answer.docs)

\* pd.to_datetime(x, errors='coerce') followed by .date()
Parsable(raw) == "day" \in DOMAIN raw
ToDate(raw) == raw.day

Drop(row, col) == [f \in (DOMAIN row) \ {col} |-> row[f]]
Put(row, col, v) ==
    [f \in (DOMAIN row) \cup {col} |-> IF f = col THEN v ELSE row[f]]

\* A Series is the sequence of its cells in index order (the index is
\* 0..n-1 in every frame here); a cell is [v |-> value] or NaCell.
NaCell == [na |-> TRUE]

\* t[col]: the column as a Series
ReadColumn(t, col) ==
    [i \in 1..Len(t.rows) |->
        IF NotNa(t.rows[i], col) THEN [v |-> t.rows[i][col]] ELSE NaCell]

\* pd.to_datetime(series, errors='coerce'): what does not parse becomes NaT
to_datetime(series) ==
    [i \in 1..Len(series) |->
        IF "v" \in DOMAIN series[i] /\ Parsable(series[i].v)
        THEN series[i] ELSE NaCell]

\* series.dt.date of a datetime Series
dt_date(series) ==
    [i \in 1..Len(series) |->
        IF "v" \in DOMAIN series[i] THEN [v |-> ToDate(series[i].v)]
        ELSE NaCell]

\* t[col] = series: the Series is aligned on the index of the frame, a row
\* beyond the Series getting a null and a cell beyond the frame being left
\* out; a frame without rows takes the index of the Series
SetColumn(t, col, series) ==
    LET n == IF Len(t.rows) = 0 THEN Len(series) ELSE Len(t.rows)
        old(i) == IF i <= Len(t.rows) THEN t.rows[i] ELSE [f \in {} |-> 0]
    IN [t EXCEPT !.cols = @ \cup {col},
                 !.rows = [i \in 1..n |->
                     IF i <= Len(series) /\ "v" \in DOMAIN series[i]
                     THEN Put(old(i), col, series[i].v)
                     ELSE Drop(old(i), col)]]

\* df['callDate'] = pd.to_datetime(df['callDate'], errors='coerce') on one
\* frame
ConvertCallDate(t) ==
    [SetColumn(t, "callDate", to_datetime(ReadColumn(t, "callDate")))
        EXCEPT !.dt = TRUE]

\* df['date'] = df['callDate'].dt.date on one frame
AddDate(t) == SetColumn(t, "date", dt_date(ReadColumn(t, "callDate")))

\* df['date'] = None
AddNullDate(t) ==
    [t EXCEPT !.cols = @ \cup {"date"},
              !.rows = [i \in 1..Len(t.rows) |-> Drop(t.rows[i], "date")]]

(***************************************************************************)
(* Aggregations of kixie_dashboard.update_dashboard                        *)
(***************************************************************************)
connected_outcomes == {"connected", "answered", "success"}

\* the non-null values of a column, in row order
ColumnValues(t, col) ==
    LET has == SelectSeq(t.rows, LAMBDA r : NotNa(r, col))
    IN [i \in 1..Len(has) |-> has[i][col]]

\* a count per value that is left in order of first appearance
value_counts_unsorted(vals) ==
    LET keys == FirstSeen(vals)
    IN [i \in 1..Len(keys) |->
          [key |-> keys[i], count |-> CountOf(vals, keys[i])]]

\* Series.value_counts(): one entry per distinct non-null value, sorted by
\* count descending, ties in order of first appearance
value_counts(vals) ==
    LET keys == FirstSeen(vals)
    IN SortDesc([i \in 1..Len(keys) |->
                    [key |-> keys[i], count |-> CountOf(vals, keys[i])]],
                "count")

(***************************************************************************)
(* Binary floating point (IEEE 754 double, round to nearest, ties to even) *)
(* as far as connections/total_calls*100 and its ':.1f' need it.  A float  *)
(* is [s, e] with the value s * 2^e: s is the 53-bit significand, written  *)
(* as four limbs <<t, a, b, c>> = t*2^48 + a*2^32 + b*2^16 + c with        *)
(* 16 <= t < 32; zero has the limbs 0.                                     *)
(***************************************************************************)
Limb == 65536
Zero == [s |-> <<0, 0, 0, 0>>, e |-> 0]

Pow2(k) ==
    <<1, 2, 4, 8, 16, 32, 64, 128, 256, 512, 1024, 2048, 4096, 8192, 16384,
      32768, 65536, 131072, 262144, 524288, 1048576, 2097152, 4194304,
      8388608, 16777216, 33554432, 67108864, 134217728, 268435456,
      536870912, 1073741824>>[k + 1]

\* the carries of the three low limbs go up
Carried(x) ==
    LET b == x[3] + x[4] \div Limb
        a == x[2] + b \div Limb
    IN <<x[1] + a \div Limb, a % Limb, b % Limb, x[4] % Limb>>

\* x * k for a small int k
Times(x, k) == Carried(<<x[1] * k, x[2] * k, x[3] * k, x[4] * k>>)

\* x shifted k bits to the right (k < 16), and the bits that fell off
Shifted(x, k) ==
    LET p == Pow2(k)
        q == Limb \div p
    IN [s |-> <<x[1] \div p,
                (x[1] % p) * q + x[2] \div p,
                (x[2] % p) * q + x[3] \div p,
                (x[3] % p) * q + x[4] \div p>>,
        out |-> x[4] % p]

\* how many bits the top limb t has beyond five
RECURSIVE Excess(_)
Excess(t) == IF t < 32 THEN 0 ELSE 1 + Excess(t \div 2)

\* the float nearest to x * 2^e (plus something below its last bit when
\* inexact); x has k bits more than 53
RoundEven(x, e, k, inexact) ==
    LET sh == Shifted(x, k)
        up == /\ k > 0
              /\ \/ sh.out > Pow2(k - 1)
                 \/ /\ sh.out = Pow2(k - 1)
                    /\ (inexact \/ sh.s[4] % 2 = 1)
        m == IF up THEN Carried(<<sh.s[1], sh.s[2], sh.s[3], sh.s[4] + 1>>)
             ELSE sh.s
    IN IF m[1] = 32 THEN [s |-> <<16, 0, 0, 0>>, e |-> e + k + 1]
       ELSE [s |-> m, e |-> e + k]

\* how often n is doubled to reach d, and d to come within a factor 2 of n
RECURSIVE Up(_, _)
Up(n, d) == IF n >= d THEN 0 ELSE 1 + Up(2 * n, d)
RECURSIVE Down(_, _)
Down(n, d) == IF n < 2 * d THEN 0 ELSE 1 + Down(n, 2 * d)

\* long division of r by d (0 <= r < d < 2^23), eight bits at a time: what
\* remains after i steps, and the i-th eight bits of the quotient
RECURSIVE Rem(_, _, _)
Rem(r, d, i) == IF i = 0 THEN r ELSE (256 * Rem(r, d, i - 1)) % d
Digit(r, d, i) == (256 * Rem(r, d, i - 1)) \div d

\* n / d of two ints (n >= 0, d > 0): the float nearest to the quotient.
\* x / y is the quotient scaled into [1, 2); 54 bits of it are computed and
\* rounded to 53.
TrueDiv(n, d) ==
    IF n = 0 THEN Zero
    ELSE LET up == Up(n, d)
             down == Down(n, d)
             x == n * Pow2(up)
             y == d * Pow2(down)
             r == (32 * (x - y)) % y
             bits == <<32 + (32 * (x - y)) \div y,
                       256 * Digit(r, y, 1) + Digit(r, y, 2),
                       256 * Digit(r, y, 3) + Digit(r, y, 4),
                       256 * Digit(r, y, 5) + Digit(r, y, 6)>>
         IN RoundEven(bits, down - up - 53, 1, Rem(r, y, 6) # 0)

\* x * k of a float and a small int
FloatTimes(x, k) ==
    IF x.s[1] = 0 THEN Zero
    ELSE LET p == Times(x.s, k)
         IN RoundEven(p, x.e, Excess(p[1]), FALSE)

\* the digits of f"{x:.1f}": the tenth nearest to the float's exact value,
\* a tie going to the even tenth.  10 * x is p * 2^(-k); j whole limbs and
\* s more bits of p are behind the binary point.
FixedTenths(x) ==
    LET p == Times(x.s, 10)
        k == 0 - x.e
        j == k \div 16
        s == k % 16
        sh == Shifted([i \in 1..4 |-> IF i <= j THEN 0 ELSE p[i - j]], s)
        whole == ((sh.s[1] * Limb + sh.s[2]) * Limb + sh.s[3]) * Limb + sh.s[4]
        lead == IF s > 0 THEN sh.out ELSE p[5 - j]
        half == IF s > 0 THEN Pow2(s - 1) ELSE Limb \div 2
        more == \E i \in (IF s > 0 THEN 5 - j ELSE 6 - j)..4 : p[i] # 0
    IN IF x.s[1] = 0 \/ j >= 4 THEN 0
       ELSE IF lead > half \/ (lead = half /\ (more \/ whole % 2 = 1))
       THEN whole + 1
       ELSE whole

\* a formatter that cuts the second decimal off instead of rounding
TenthsTruncated(n, d) == (1000 * n) \div d

\* the digits of f"{(n/d*100):.1f}": the division and the multiplication
\* are float operations, each rounded, and the format rounds their result
Tenths(n, d) == FixedTenths(FloatTimes(TrueDiv(n, d), 100))
OneDecimal(n, d) ==
    LET t == Tenths(n, d)
    IN ToString(t \div 10) \o "." \o ToString(t % 10)

\* line 197 and line 234
Rate(n, d) == IF d > 0 THEN OneDecimal(n, d) \o "%" ELSE "0%"

\* lines 201-205
TalkTimeKpi(total_duration) ==
    LET talk_minutes == total_duration \div 60
    IN IF talk_minutes > 60
       THEN ToString(talk_minutes \div 60) \o "h "
            \o ToString(talk_minutes % 60) \o "m"
       ELSE ToString(talk_minutes) \o "m"

\* str() of a numpy int64 or float64 holding the whole number n
NumStr(n, isfloat) == ToString(n) \o (IF isfloat THEN ".0" ELSE "")

\* line 238
TalkTimeAgent(x, isfloat) ==
    IF x < 3600 THEN ToString(x \div 60) \o "m"
    ELSE NumStr(x \div 60, isfloat) \o "h " \o NumStr(x % 60, isfloat) \o "m"

\* lines 181-188
FilterByDate(t, start_date, end_date) ==
    IF "day" \in DOMAIN start_date /\ "day" \in DOMAIN end_date
    THEN LET start == ToDate(start_date)
             end == ToDate(end_date)
         IN IF "date" \in t.cols
            THEN [t EXCEPT !.rows = SelectSeq(t.rows,
                     LAMBDA r : NotNa(r, "date")
                                /\ r.date >= start /\ r.date <= end)]
            ELSE t
    ELSE t

\* lines 225-242
GroupRows(f, a) == SelectSeq(f.rows, LAMBDA r : NotNa(r, "agent") /\ r.agent = a)
\* a row whose Total Calls counts the calls that carry a callDate
AgentRowCountingCallDates(f, a) ==
    LET g == GroupRows(f, a)
        calls == Len(SelectSeq(g, LAMBDA r : NotNa(r, "callDate")))
        conns == Len(SelectSeq(g, LAMBDA r :
                     NotNa(r, "outcome") /\ r.outcome \in connected_outcomes))
        durs == SelectSeq(g, LAMBDA r : NotNa(r, "duration"))
        dur == SumSeq([i \in 1..Len(durs) |-> durs[i].duration])
    IN [Agent |-> a, TotalCalls |-> calls, Connections |-> conns,
        TotalDuration |-> dur, ConnectionPct |-> Rate(conns, calls),
        TalkTime |-> TalkTimeAgent(dur, f.fdur)]
AgentRow(f, a) ==
    LET g == GroupRows(f, a)
        calls == Len(SelectSeq(g, LAMBDA r : NotNa(r, "id")))
        conns == Len(SelectSeq(g, LAMBDA r :
                     NotNa(r, "outcome") /\ r.outcome \in connected_outcomes))
        durs == SelectSeq(g, LAMBDA r : NotNa(r, "duration"))
        dur == SumSeq([i \in 1..Len(durs) |-> durs[i].duration])
    IN [Agent |-> a, TotalCalls |-> calls, Connections |-> conns,
        TotalDuration |-> dur, ConnectionPct |-> Rate(conns, calls),
        TalkTime |-> TalkTimeAgent(dur, f.fdur)]
\* a per-agent table left in group-key order
AgentStatsUnsorted(f) ==
    LET agents == ColumnValues(f, "agent")
        present == SelectSeq(StringOrder,
                       LAMBDA a : \E i \in 1..Len(agents) : agents[i] = a)
    IN [i \in 1..Len(present) |-> AgentRow(f, present[i])]

AgentStats(f) ==
    LET agents == ColumnValues(f, "agent")
        present == SelectSeq(StringOrder,
                       LAMBDA a : \E i \in 1..Len(agents) : agents[i] = a)
    IN SortDesc([i \in 1..Len(present) |-> AgentRow(f, present[i])],
                "Connections")

\* lines 245-262: one table row per row of agent_stats, in its order.  The
\* HTML shows Agent, Total Calls, Connections, Connection % and Talk Time;
\* Total Duration stays in agent_stats and is kept here beside them.
TableOf(stats) == [rows |-> stats]

Raised(exc, what) == [error |-> exc, what |-> what]
EmptyFigure == [kind |-> "empty"]

\* line 178
NoDataView ==
    [error |-> "none", total_calls |-> "0", connections |-> "0",
     connection_rate |-> "0%", talk_time |-> "0m",
     fig_outcome |-> EmptyFigure, fig_agent |-> EmptyFigure,
     table |-> [text |-> "No data"]]

\* lines 190-272 on the filtered frame f
Aggregate(f) ==
    IF "outcome" \notin f.cols THEN Raised("KeyError", "outcome")
    ELSE IF "agent" \notin f.cols THEN Raised("KeyError", "agent")
    ELSE IF "duration" \notin f.cols THEN Raised("KeyError", "duration")
    ELSE
    LET total_calls == Len(f.rows)
        connections == Len(SelectSeq(f.rows, LAMBDA r :
                           NotNa(r, "outcome") /\ r.outcome \in connected_outcomes))
        total_duration == IF "duration" \in f.cols
                          THEN SumSeq(ColumnValues(f, "duration")) ELSE 0
    IN [error |-> "none",
        total_calls |-> ToString(total_calls),
        connections |-> ToString(connections),
        connection_rate |-> Rate(connections, total_calls),
        talk_time |-> TalkTimeKpi(total_duration),
        fig_outcome |-> [kind |-> "pie",
                         data |-> value_counts(ColumnValues(f, "outcome"))],
        fig_agent |-> [kind |-> "bar",
                       data |-> Head_n(value_counts(ColumnValues(f, "agent")), 10)],
        table |-> TableOf(AgentStats(f))]

\* lines 177-272 on the current dataset t
Render(t, start_date, end_date) ==
    IF Empty(t) THEN NoDataView
    ELSE Aggregate(FilterByDate(t, start_date, end_date))

(***************************************************************************)
(* kixie_dashboard.py: start-up (lines 48-61) and the callback             *)
(***************************************************************************)
KixieDefaultColumns ==
    {"id", "agent", "phoneNumber", "direction", "outcome", "duration",
     "callDate", "callEndDate", "receivedAt"}

\* what the date picker sends: nothing, or a date text
StartDates == {None, Ts(1, 0), Ts(2, 0)}
EndDates == {None, Ts(2, 0)}

\* the record of the callback that returned last: its inputs, what its
\* fetch did (failed: fetch_calls took one of its two empty exits, lines 27
\* and 42; returned: the frame fetch_calls returned), the frame it copied at
\* line 181 (dataset, when copied) and that frame after lines 182-188
NoCycle ==
    [ran |-> FALSE, start_date |-> None, end_date |-> None,
     refresh_clicks |-> 0, auto_refresh |-> 0, fetched |-> FALSE,
     failed |-> FALSE, returned |-> EmptyFrame,
     copied |-> FALSE, dataset |-> EmptyFrame,
     filtered |-> EmptyFrame]

\* lines 173-175 on one frame that no other callback touches
ProcessDates(t) ==
    IF "callDate" \in t.cols /\ ~Empty(t) THEN AddDate(ConvertCallDate(t))
    ELSE t

\* lines 50-61
KixieStartup(client, answer) ==
    LET d0 == Fetch(client, answer)
        d1 == IF Empty(d0) THEN Columns(KixieDefaultColumns) ELSE d0
    IN IF "callDate" \in d1.cols /\ ~Empty(d1) THEN AddDate(ConvertCallDate(d1))
       ELSE IF ~Empty(d1) THEN AddNullDate(d1)
       ELSE d1

\* line 171
ShouldRefresh(refresh_clicks, auto_refresh) ==
    refresh_clicks > 0 \/ auto_refresh > 0

(***************************************************************************)
(* update_dashboard(apply_clicks, start_date, end_date, refresh_clicks,    *)
(* auto_refresh) of kixie_dashboard.py.  The server is threaded, so a      *)
(* callback runs statement by statement beside the other callbacks in      *)
(* flight: every statement of lines 172-181 looks the module-level df up   *)
(* again, and lines 173, 174 and 175 look it up twice with a call between. *)
(* pc[self] is the position of callback self, loc[self] its inputs and     *)
(* locals.  apply_clicks is never read.                                    *)
(***************************************************************************)
Threads == {1, 2}

\* what the Record Source answers while two callbacks are in flight
ThreadAnswers ==
    {[ok |-> FALSE, docs |-> <<>>],
     [ok |-> TRUE, docs |-> <<KixieDocs[1]>>],
     [ok |-> TRUE, docs |-> <<KixieDocs[3]>>],
     [ok |-> TRUE, docs |-> <<KixieDocs[4]>>],
     [ok |-> TRUE, docs |-> <<KixieDocs[1], KixieDocs[2]>>]}
\* the date ranges two browsers send: no range, or day 2 alone
ThreadRanges == {<<None, None>>, <<Ts(2, 0), Ts(2, 0)>>}

\* snap: the dataset this callback alone would aggregate (its own fetch, or
\* the current dataset when it was entered), with its dates processed.
\* latest: this callback's fetch is the most recent one.  series: the value
\* of the right-hand side of line 174 or 175 before it is stored.
Idle ==
    [start_date |-> None, end_date |-> None, refresh_clicks |-> 0,
     auto_refresh |-> 0, fetched |-> FALSE, failed |-> FALSE,
     returned |-> EmptyFrame, latest |-> FALSE, series |-> <<>>,
     copied |-> FALSE, filtered_df |-> EmptyFrame, snap |-> EmptyFrame,
     result |-> [error |-> "none", pending |-> TRUE]]

\* one browser: one callback, any collection and any date range
KixieInit ==
    /\ app = "kixie"
    /\ db \in BOOLEAN
    /\ \E answer \in KixieAnswers : df = KixieStartup(db, answer)
    /\ kpi = <<>>
    /\ cycle = NoCycle
    /\ view = [error |-> "none", pending |-> TRUE]
    /\ pc = [t \in {1} |-> "idle"]
    /\ loc = [t \in {1} |-> Idle]

\* two browsers: two callbacks in flight
ThreadInit ==
    /\ app = "kixie"
    /\ db = TRUE
    /\ \E answer \in ThreadAnswers : df = KixieStartup(db, answer)
    /\ kpi = <<>>
    /\ cycle = NoCycle
    /\ view = [error |-> "none", pending |-> TRUE]
    /\ pc = [t \in Threads |-> "idle"]
    /\ loc = [t \in Threads |-> Idle]

Ranges == IF Len(pc) = 1 THEN StartDates \X EndDates ELSE ThreadRanges
Fetchable == IF Len(pc) = 1 THEN KixieAnswers ELSE ThreadAnswers

Goto(self, next) == pc' = [pc EXCEPT ![self] = next]

\* the callback returns result (or raises it)
Finish(self, result) ==
    /\ Goto(self, "done")
    /\ loc' = [loc EXCEPT ![self].result = result]
    /\ df' = df
    /\ view' = result
    /\ cycle' = [ran |-> TRUE,
                 start_date |-> loc[self].start_date,
                 end_date |-> loc[self].end_date,
                 refresh_clicks |-> loc[self].refresh_clicks,
                 auto_refresh |-> loc[self].auto_refresh,
                 fetched |-> loc[self].fetched,
                 failed |-> loc[self].failed,
                 returned |-> loc[self].returned,
                 copied |-> loc[self].copied,
                 dataset |-> loc[self].filtered_df,
                 filtered |-> IF loc[self].copied
                              THEN FilterByDate(loc[self].filtered_df,
                                                loc[self].start_date,
                                                loc[self].end_date)
                              ELSE EmptyFrame]

\* the callback is entered; line 171
Enter(self) ==
    /\ pc[self] = "idle"
    /\ \E refresh_clicks \in Clicks, auto_refresh \in Clicks,
          range \in Ranges :
        /\ loc' = [loc EXCEPT ![self] =
                     [Idle EXCEPT !.start_date = range[1],
                                  !.end_date = range[2],
                                  !.refresh_clicks = refresh_clicks,
                                  !.auto_refresh = auto_refresh,
                                  !.snap = ProcessDates(df)]]
        /\ Goto(self, IF ShouldRefresh(refresh_clicks, auto_refresh)
                      THEN "L172" ELSE "L177")
    /\ UNCHANGED <<df, cycle, view>>

\* line 172, right-hand side: fetch_calls() answers
L172(self) ==
    /\ pc[self] = "L172"
    /\ \E answer \in Fetchable :
          loc' = [t \in DOMAIN loc |->
                    IF t = self
                    THEN [loc[t] EXCEPT
                            !.fetched = TRUE,
                            !.failed = ~db \/ ~answer.ok,
                            !.returned = Fetch(db, answer),
                            !.latest = TRUE,
                            !.snap = ProcessDates(Fetch(db, answer))]
                    ELSE [loc[t] EXCEPT !.latest = FALSE]]
    /\ Goto(self, "L172_store")
    /\ UNCHANGED <<df, cycle, view>>

\* line 172, the store: df = ...
L172_store(self) ==
    /\ pc[self] = "L172_store"
    /\ df' = loc[self].returned
    /\ Goto(self, "L173")
    /\ UNCHANGED <<loc, cycle, view>>

\* line 173, left operand: 'callDate' in df.columns
L173(self) ==
    /\ pc[self] = "L173"
    /\ Goto(self, IF "callDate" \in df.cols THEN "L173_empty" ELSE "L177")
    /\ UNCHANGED <<df, loc, cycle, view>>

\* line 173, right operand: not df.empty
L173_empty(self) ==
    /\ pc[self] = "L173_empty"
    /\ Goto(self, IF ~Empty(df) THEN "L174" ELSE "L177")
    /\ UNCHANGED <<df, loc, cycle, view>>

\* line 174, right-hand side: pd.to_datetime(df['callDate'], errors='coerce')
L174(self) ==
    /\ pc[self] = "L174"
    /\ IF "callDate" \notin df.cols
       THEN Finish(self, Raised("KeyError", "callDate"))
       ELSE /\ loc' = [loc EXCEPT ![self].series =
                          to_datetime(ReadColumn(df, "callDate"))]
            /\ Goto(self, "L174_store")
            /\ UNCHANGED <<df, cycle, view>>

\* line 174, the store: df['callDate'] = ...
L174_store(self) ==
    /\ pc[self] = "L174_store"
    /\ df' = [SetColumn(df, "callDate", loc[self].series) EXCEPT !.dt = TRUE]
    /\ loc' = [loc EXCEPT ![self].series = <<>>]
    /\ Goto(self, "L175")
    /\ UNCHANGED <<cycle, view>>

\* line 175, right-hand side: df['callDate'].dt.date
L175(self) ==
    /\ pc[self] = "L175"
    /\ IF "callDate" \notin df.cols
       THEN Finish(self, Raised("KeyError", "callDate"))
       ELSE IF ~df.dt
       THEN Finish(self, Raised("AttributeError", "dt"))
       ELSE /\ loc' = [loc EXCEPT ![self].series =
                          dt_date(ReadColumn(df, "callDate"))]
            /\ Goto(self, "L175_store")
            /\ UNCHANGED <<df, cycle, view>>

\* line 175, the store: df['date'] = ...
L175_store(self) ==
    /\ pc[self] = "L175_store"
    /\ df' = SetColumn(df, "date", loc[self].series)
    /\ loc' = [loc EXCEPT ![self].series = <<>>]
    /\ Goto(self, "L177")
    /\ UNCHANGED <<cycle, view>>

\* lines 177-178: if df.empty: return ...
L177(self) ==
    /\ pc[self] = "L177"
    /\ IF Empty(df)
       THEN Finish(self, NoDataView)
       ELSE /\ Goto(self, "L181")
            /\ UNCHANGED <<df, loc, cycle, view>>

\* line 181: filtered_df = df.copy()
L181(self) ==
    /\ pc[self] = "L181"
    /\ loc' = [loc EXCEPT ![self].filtered_df = df, ![self].copied = TRUE]
    /\ Goto(self, "L182")
    /\ UNCHANGED <<df, cycle, view>>

\* lines 182-272: everything after the copy works on locals
L182(self) ==
    /\ pc[self] = "L182"
    /\ Finish(self, Aggregate(FilterByDate(loc[self].filtered_df,
                                          loc[self].start_date,
                                          loc[self].end_date)))

update_dashboard(self) ==
    \/ Enter(self) \/ L172(self) \/ L172_store(self)
    \/ L173(self) \/ L173_empty(self)
    \/ L174(self) \/ L174_store(self) \/ L175(self) \/ L175_store(self)
    \/ L177(self) \/ L181(self) \/ L182(self)

KixieNext ==
    /\ app = "kixie"
    /\ \E self \in DOMAIN pc : update_dashboard(self)
    /\ UNCHANGED <<app, db, kpi>>

(***************************************************************************)
(* api/index.py: the status page                                           *)
(***************************************************************************)
StatKeys == <<"contacts", "opportunities", "pipelines", "users">>
StatKeySet == {StatKeys[i] : i \in 1..Len(StatKeys)}

\* what db.collection(c).count().get()[0].value does: raises, or a count
CountAnswers ==
    {[ok |-> FALSE, value |-> 0]}
    \cup {[ok |-> TRUE, value |-> n] : n \in 0..MaxCount}

ApiInit ==
    /\ app = "api"
    /\ db \in BOOLEAN
    /\ df = EmptyFrame
    /\ kpi = <<>>
    /\ cycle = NoCycle
    /\ view = [error |-> "none", pending |-> TRUE]
    /\ pc = <<>>
    /\ loc = <<>>

\* lines 109-123: the dict handed to jsonify
StatsDict(client, answers) ==
    IF client
    THEN [k \in StatKeySet |-> IF answers[k].ok THEN answers[k].value ELSE 0]
    ELSE [k \in {} |-> 0]

\* GET /api/stats
api_stats ==
    /\ app = "api"
    /\ \E answers \in [StatKeySet -> CountAnswers] :
          view' = [error |-> "none", route |-> "/api/stats",
                   body |-> StatsDict(db, answers)]
    /\ UNCHANGED <<app, db, df, kpi, cycle, pc, loc>>

\* lines 80-100: the values the template shows
IndexStats(client, answers) ==
    [k \in StatKeySet |->
        IF client /\ answers[k].ok THEN ToString(answers[k].value) ELSE "-"]

\* GET /
index ==
    /\ app = "api"
    /\ \E answers \in [StatKeySet -> CountAnswers] :
          view' = [error |-> "none", route |-> "/",
                   body |-> IndexStats(db, answers)]
    /\ UNCHANGED <<app, db, df, kpi, cycle, pc, loc>>

(***************************************************************************)
(* sales_dashboard.py: the opportunities dashboard                         *)
(***************************************************************************)
SalesDocs == <<
    [id |-> 1, firstName |-> "Ann", lastName |-> "Lee", phone |-> "555-0101",
     team |-> "East", rep |-> "A", leadSource |-> "web", setter |-> "B",
     tags |-> <<"new">>],
    [id |-> 2, firstName |-> "Bo", lastName |-> "Kim", phone |-> "555-0102",
     team |-> "East", rep |-> "A", leadSource |-> "door", setter |-> "C",
     tags |-> <<"new", "hot">>],
    [id |-> 3, firstName |-> "Cy", lastName |-> "Roy", phone |-> "555-0103",
     team |-> "West", rep |-> "C", leadSource |-> "web", setter |-> "B",
     tags |-> <<"hot">>],
    [id |-> 4, firstName |-> "Di", lastName |-> "Fox", phone |-> "555-0104",
     team |-> "West", rep |-> "A", leadSource |-> "web"],
    [id |-> 5, firstName |-> "Ed", phone |-> "555-0105", setter |-> "C",
     tags |-> <<"hot", "hot">>]
>>

SalesAnswers == Answers(SalesDocs)

SalesDefaultColumns ==
    {"id", "firstName", "lastName", "phone", "email", "team", "rep",
     "leadSource", "type", "syncedAt", "setter", "tags"}

NUnique(t, col) ==
    Cardinality({t.rows[i][col] : i \in {j \in 1..Len(t.rows) : NotNa(t.rows[j], col)}})

\* lines 52-58
SalesStartup(client, answer) ==
    LET d0 == Fetch(client, answer)
    IN IF Empty(d0) THEN Columns(SalesDefaultColumns) ELSE d0

\* lines 70-90: the four KPI cards, evaluated once when the layout is built
KpiCards(t) ==
    [total |-> ToString(Len(t.rows)),
     with_setter |-> ToString(Len(ColumnValues(t, "setter"))),
     unique_setters |-> ToString(NUnique(t, "setter")),
     teams_active |-> ToString(NUnique(t, "team"))]

\* the module imports only if the layout can be built
LayoutBuilds(t) == "setter" \in t.cols /\ "team" \in t.cols

\* lines 189-194
RECURSIVE Extend(_)
Extend(lists) ==
    IF lists = <<>> THEN <<>> ELSE Head(lists) \o Extend(Tail(lists))
\* a ranking fed with the first tag of every list only
all_tags_first_only(t) ==
    LET lists == SelectSeq(ColumnValues(t, "tags"), LAMBDA l : l # <<>>)
    IN [i \in 1..Len(lists) |-> Head(lists[i])]
all_tags(t) == Extend(ColumnValues(t, "tags"))

\* line 212: groupby(['leadSource', 'team']).size(), keys ascending, rows
\* with a null key left out
BothKeys(t, a, b) ==
    Len(SelectSeq(t.rows, LAMBDA r :
        /\ NotNa(r, "leadSource") /\ r.leadSource = a
        /\ NotNa(r, "team") /\ r.team = b))
RECURSIVE Pairs(_, _)
Pairs(as, bs) ==
    IF as = <<>> THEN <<>>
    ELSE [i \in 1..Len(bs) |-> <<Head(as), bs[i]>>] \o Pairs(Tail(as), bs)
source_team(t) ==
    LET seen == SelectSeq(Pairs(StringOrder, StringOrder),
                          LAMBDA p : BothKeys(t, p[1], p[2]) > 0)
    IN [i \in 1..Len(seen) |->
          [leadSource |-> seen[i][1], team |-> seen[i][2],
           Count |-> BothKeys(t, seen[i][1], seen[i][2])]]

\* line 223 and lines 225-230: str() of each cell, NaN printing as "nan"
SampleColumns == <<"firstName", "lastName", "phone", "team", "setter", "leadSource">>
\* series.notna()
notna(series) == [i \in 1..Len(series) |-> "v" \in DOMAIN series[i]]
\* t[mask]: the mask is aligned on the index of t, which fails when t has a
\* row the mask has no entry for
Alignable(t, mask) == Len(t.rows) <= Len(mask)
RECURSIVE Masked(_, _, _)
Masked(rows, mask, i) ==
    IF i > Len(rows) THEN <<>>
    ELSE (IF mask[i] THEN <<rows[i]>> ELSE <<>>) \o Masked(rows, mask, i + 1)
SampleTable(t, mask) ==
    LET sample == Head_n(Masked(t.rows, mask, 1), 25)
    IN [i \in 1..Len(sample) |->
          [j \in 1..Len(SampleColumns) |->
              IF NotNa(sample[i], SampleColumns[j])
              THEN sample[i][SampleColumns[j]] ELSE "nan"]]

\* lines 163-169, 172-177, 180-185, 189-199 and 202-208: the five charts
\* that are counts of one column
fig_setter(t) ==
    [kind |-> "bar", data |-> Head_n(value_counts(ColumnValues(t, "setter")), 15)]
fig_team(t) ==
    [kind |-> "bar", data |-> value_counts(ColumnValues(t, "team"))]
fig_source(t) ==
    [kind |-> "pie", data |-> value_counts(ColumnValues(t, "leadSource"))]
fig_pipeline(t) ==
    [kind |-> "funnel", data |-> Head_n(value_counts(all_tags(t)), 12)]
fig_rep(t) ==
    [kind |-> "bar", data |-> Head_n(value_counts(ColumnValues(t, "rep")), 15)]

\* lines 212-217 and lines 219-220
fig_conversion(t) == [kind |-> "bar", data |-> source_team(t)]
NoConversion == [kind |-> "empty", title |-> "Lead Sources by Team"]

(***************************************************************************)
(* update_dashboard(n_clicks) of sales_dashboard.py, statement by          *)
(* statement: the module-level df is stored at line 160 and looked up      *)
(* again at lines 163, 172, 180, 190, 202, 211 (twice), 212 and 223, with  *)
(* calls in between, beside the other callbacks of the threaded server.    *)
(* loc[self].result collects the figures built so far.                     *)
(***************************************************************************)
SalesIdle ==
    [n_clicks |-> 0, fetched |-> FALSE, returned |-> EmptyFrame,
     outer |-> EmptyFrame,
     result |-> [error |-> "none", pending |-> TRUE]]

\* what the Record Source answers while two callbacks are in flight
SalesThreadAnswers ==
    {[ok |-> FALSE, docs |-> <<>>],
     [ok |-> TRUE, docs |-> <<SalesDocs[1]>>],
     [ok |-> TRUE, docs |-> <<SalesDocs[2]>>],
     [ok |-> TRUE, docs |-> <<SalesDocs[5]>>],
     [ok |-> TRUE, docs |-> <<SalesDocs[1], SalesDocs[2]>>],
     [ok |-> TRUE, docs |-> <<SalesDocs[4], SalesDocs[1]>>]}

\* one browser: one callback, any collection
SalesInit ==
    /\ app = "sales"
    /\ db \in BOOLEAN
    /\ \E answer \in SalesAnswers :
          /\ df = SalesStartup(db, answer)
          /\ LayoutBuilds(df)
          /\ kpi = KpiCards(df)
    /\ cycle = NoCycle
    /\ view = [error |-> "none", pending |-> TRUE]
    /\ pc = [t \in {1} |-> "idle"]
    /\ loc = [t \in {1} |-> SalesIdle]

\* two browsers: two callbacks in flight
SalesThreadInit ==
    /\ app = "sales"
    /\ db = TRUE
    /\ \E answer \in SalesThreadAnswers :
          /\ df = SalesStartup(db, answer)
          /\ LayoutBuilds(df)
          /\ kpi = KpiCards(df)
    /\ cycle = NoCycle
    /\ view = [error |-> "none", pending |-> TRUE]
    /\ pc = [t \in Threads |-> "idle"]
    /\ loc = [t \in Threads |-> SalesIdle]

SalesFetchable == IF Len(pc) = 1 THEN SalesAnswers ELSE SalesThreadAnswers

\* the callback returns result (or raises it)
SalesFinish(self, result) ==
    /\ Goto(self, "done")
    /\ loc' = [loc EXCEPT ![self].result = result]
    /\ df' = df
    /\ view' = result
    /\ cycle' = [NoCycle EXCEPT !.ran = TRUE,
                                !.refresh_clicks = loc[self].n_clicks,
                                !.fetched = loc[self].fetched]

\* the figure fig built from column col of the current df is kept and the
\* callback goes on to next; df[col] raises when the column is missing
Chart(self, col, name, fig, next) ==
    IF col \notin df.cols
    THEN SalesFinish(self, Raised("KeyError", col))
    ELSE /\ loc' = [loc EXCEPT ![self].result = Put(@, name, fig)]
         /\ Goto(self, next)
         /\ UNCHANGED <<df, cycle, view>>

\* the callback is entered; line 159
SalesEnter(self) ==
    /\ pc[self] = "idle"
    /\ \E n_clicks \in Clicks :
        /\ loc' = [loc EXCEPT ![self] = [SalesIdle EXCEPT !.n_clicks = n_clicks]]
        /\ Goto(self, IF n_clicks > 0 THEN "S160" ELSE "S163")
    /\ UNCHANGED <<df, cycle, view>>

\* line 160, right-hand side: fetch_contacts() answers
S160(self) ==
    /\ pc[self] = "S160"
    /\ \E answer \in SalesFetchable :
          loc' = [loc EXCEPT ![self].fetched = TRUE,
                             ![self].returned = Fetch(db, answer)]
    /\ Goto(self, "S160_store")
    /\ UNCHANGED <<df, cycle, view>>

\* line 160, the store: df = ...
S160_store(self) ==
    /\ pc[self] = "S160_store"
    /\ df' = loc[self].returned
    /\ Goto(self, "S163")
    /\ UNCHANGED <<loc, cycle, view>>

\* lines 163-169
S163(self) ==
    /\ pc[self] = "S163"
    /\ Chart(self, "setter", "fig_setter", fig_setter(df), "S172")

\* lines 172-177
S172(self) ==
    /\ pc[self] = "S172"
    /\ Chart(self, "team", "fig_team", fig_team(df), "S180")

\* lines 180-185
S180(self) ==
    /\ pc[self] = "S180"
    /\ Chart(self, "leadSource", "fig_source", fig_source(df), "S190")

\* lines 189-199
S190(self) ==
    /\ pc[self] = "S190"
    /\ Chart(self, "tags", "fig_pipeline", fig_pipeline(df), "S202")

\* lines 202-208
S202(self) ==
    /\ pc[self] = "S202"
    /\ Chart(self, "rep", "fig_rep", fig_rep(df), "S211")

\* line 211, left operand: not df['team'].empty
S211(self) ==
    /\ pc[self] = "S211"
    /\ IF "team" \in df.cols /\ Len(df.rows) > 0
       THEN /\ Goto(self, "S211_source")
            /\ UNCHANGED <<df, loc, cycle, view>>
       ELSE Chart(self, "team", "fig_conversion", NoConversion, "S223")

\* line 211, right operand: not df['leadSource'].empty
S211_source(self) ==
    /\ pc[self] = "S211_source"
    /\ IF "leadSource" \in df.cols /\ Len(df.rows) > 0
       THEN /\ Goto(self, "S212")
            /\ UNCHANGED <<df, loc, cycle, view>>
       ELSE Chart(self, "leadSource", "fig_conversion", NoConversion, "S223")

\* lines 212-217: df.groupby(['leadSource', 'team']).size()
S212(self) ==
    /\ pc[self] = "S212"
    /\ IF "leadSource" \in df.cols
       THEN Chart(self, "team", "fig_conversion", fig_conversion(df), "S223")
       ELSE SalesFinish(self, Raised("KeyError", "leadSource"))

\* line 223, the first lookup of df: the frame that is indexed
S223(self) ==
    /\ pc[self] = "S223"
    /\ loc' = [loc EXCEPT ![self].outer = df]
    /\ Goto(self, "S223_mask")
    /\ UNCHANGED <<df, cycle, view>>

\* line 223, the second lookup of df: the mask df['setter'].notna(), applied
\* to the frame of the first lookup; lines 225-232: the table, and the return
S223_mask(self) ==
    /\ pc[self] = "S223_mask"
    /\ IF "setter" \notin df.cols
       THEN SalesFinish(self, Raised("KeyError", "setter"))
       ELSE IF ~Alignable(loc[self].outer, notna(ReadColumn(df, "setter")))
       THEN SalesFinish(self, Raised("IndexingError", "mask"))
       ELSE IF \E j \in 1..Len(SampleColumns) :
                  SampleColumns[j] \notin loc[self].outer.cols
       THEN SalesFinish(self, Raised("KeyError", "sample"))
       ELSE SalesFinish(self,
                Drop(Put(loc[self].result, "table",
                         SampleTable(loc[self].outer,
                                     notna(ReadColumn(df, "setter")))),
                     "pending"))

sales_update_dashboard(self) ==
    \/ SalesEnter(self) \/ S160(self) \/ S160_store(self)
    \/ S163(self) \/ S172(self)
    \/ S180(self) \/ S190(self) \/ S202(self) \/ S211(self)
    \/ S211_source(self) \/ S212(self) \/ S223(self) \/ S223_mask(self)

SalesNext ==
    /\ app = "sales"
    /\ \E self \in DOMAIN pc : sales_update_dashboard(self)
    /\ UNCHANGED <<app, db, kpi>>

(***************************************************************************)
(* The rate expression of lines 197 and 234 applied to counts of its own   *)
(***************************************************************************)
RateInit ==
    /\ app = "rate"
    /\ db = FALSE
    /\ df = EmptyFrame
    /\ kpi = <<>>
    /\ cycle = NoCycle
    /\ view = [error |-> "none", pending |-> TRUE]
    /\ pc = <<>>
    /\ \E d \in 0..MaxCalls : \E n \in 0..d : loc = [n |-> n, d |-> d]

FormatRate ==
    /\ app = "rate"
    /\ view' = [error |-> "none", connection_rate |-> Rate(loc.n, loc.d)]
    /\ UNCHANGED <<app, db, df, kpi, cycle, pc, loc>>

(***************************************************************************)
(* df[col].value_counts() and .head(top_n) of the chart code (kixie lines  *)
(* 208 and 216, sales lines 163, 172, 180 and 202) applied to a column of  *)
(* their own: a null row, the values 1..k once each in that order, then up *)
(* to two of them once more.                                               *)
(***************************************************************************)
TopNs == {None, [n |-> 10], [n |-> 15]}

Extras(k) ==
    {<<>>} \cup {<<a>> : a \in 1..k}
    \cup {<<a, b>> : a \in 1..k, b \in 1..k}

CountedColumn(k, extra) ==
    LET vals == [i \in 1..k |-> i] \o extra
    IN DataFrame(<<[id |-> 0]>>
                 \o [i \in 1..Len(vals) |-> [id |-> i, agent |-> vals[i]]])

CountsInit ==
    /\ app = "counts"
    /\ db = FALSE
    /\ \E k \in 0..MaxGroups : \E extra \in Extras(k) :
          /\ (Len(extra) = 2 => extra[1] <= extra[2])
          /\ df = CountedColumn(k, extra)
    /\ kpi = <<>>
    /\ cycle = NoCycle
    /\ view = [error |-> "none", pending |-> TRUE]
    /\ pc = <<>>
    /\ \E top_n \in TopNs : loc = [top_n |-> top_n]

GroupCounts ==
    /\ app = "counts"
    /\ view' = IF "agent" \notin df.cols THEN Raised("KeyError", "agent")
               ELSE [error |-> "none",
                     data |-> IF "n" \in DOMAIN loc.top_n
                              THEN Head_n(value_counts(ColumnValues(df, "agent")),
                                          loc.top_n.n)
                              ELSE value_counts(ColumnValues(df, "agent"))]
    /\ UNCHANGED <<app, db, df, kpi, cycle, pc, loc>>

(***************************************************************************)
(* The tag ranking of sales lines 189-194 applied to a tags column of its  *)
(* own: a row without tags, the tags t1..tj in one list, tj+1..tk in a     *)
(* second one, and a third list that repeats up to two of them.            *)
(***************************************************************************)
Tag(i) == "t" \o ToString(i)

TaggedRows(k, j, extra) ==
    DataFrame(<<[id |-> 0],
                [id |-> 1, tags |-> [i \in 1..j |-> Tag(i)]],
                [id |-> 2, tags |-> [i \in 1..(k - j) |-> Tag(j + i)]],
                [id |-> 3, tags |-> [i \in 1..Len(extra) |-> Tag(extra[i])]]>>)

TagsInit ==
    /\ app = "tags"
    /\ db = FALSE
    /\ \E k \in 0..MaxTags : \E j \in 0..k : \E extra \in Extras(k) :
          df = TaggedRows(k, j, extra)
    /\ kpi = <<>>
    /\ cycle = NoCycle
    /\ view = [error |-> "none", pending |-> TRUE]
    /\ pc = <<>>
    /\ loc = <<>>

RankTags ==
    /\ app = "tags"
    /\ view' = IF "tags" \notin df.cols THEN Raised("KeyError", "tags")
               ELSE [error |-> "none",
                     data |-> Head_n(value_counts(all_tags(df)), 12)]
    /\ UNCHANGED <<app, db, df, kpi, cycle, pc, loc>>

Init == KixieInit \/ ThreadInit \/ SalesInit \/ SalesThreadInit \/ ApiInit
Next == KixieNext \/ SalesNext \/ api_stats \/ index
Spec == Init /\ [][Next]_vars

SpecKixie == (KixieInit \/ ThreadInit) /\ [][KixieNext]_vars
SpecThreads == ThreadInit /\ [][KixieNext]_vars
SpecRates == (KixieInit \/ RateInit) /\ [][KixieNext \/ FormatRate]_vars
SpecSales == (SalesInit \/ SalesThreadInit) /\ [][SalesNext]_vars
SpecTags == (SalesInit \/ TagsInit) /\ [][SalesNext \/ RankTags]_vars
SpecCounts ==
    (KixieInit \/ SalesInit \/ CountsInit)
    /\ [][KixieNext \/ SalesNext \/ GroupCounts]_vars

SpecApi == ApiInit /\ [][api_stats \/ index]_vars

(***************************************************************************)
(* Properties                                                              *)
(***************************************************************************)
Ok(v) == v.error = "none" /\ "pending" \notin DOMAIN v
KixieRan == app = "kixie" /\ cycle.ran
\* the callback that returned last got past line 181 and returned a view
KixieAggregated == KixieRan /\ cycle.copied /\ Ok(view)

\* C1: GET /api/stats always answers an object holding the four keys
\* contacts, opportunities, pipelines and users, each a non-negative integer,
\* whatever the state of the Record Source (also when no client exists).
C1_StatsHasFourKeys ==
    (app = "api" /\ "route" \in DOMAIN view /\ view.route = "/api/stats")
    => /\ DOMAIN view.body = StatKeySet
       /\ \A k \in StatKeySet : view.body[k] \in Nat

\* C2: no recompute cycle of a dashboard ends in a raised error; every
\* cycle returns a rendered view.
C2_NoCycleRaises == view.error = "none"

\* C3: every trigger of a dashboard callback (page load, date-range change,
\* Apply Filter click, Refresh click, auto-refresh tick) fetches the records
\* anew before aggregating; none returns without having fetched.
C3_EveryTriggerFetches ==
    (app \in {"kixie", "sales"} /\ cycle.ran) => cycle.fetched

\* C4: after a refresh cycle of the opportunities dashboard the KPI cards
\* show values computed from the dataset the cycle's charts and table were
\* computed from.
C4_KpiCardsFollowDataset ==
    (app = "sales" /\ cycle.ran /\ Ok(view)) => kpi = KpiCards(df)

\* C5: a callback that ran interleaved with another returns exactly the
\* view it returns when run alone on its own snapshot (the dataset it
\* fetched, or the current dataset when it was entered) with its own dates.
C5_ResultAsIfAlone ==
    app = "kixie" =>
        \A t \in DOMAIN pc :
            pc[t] = "done" =>
                loc[t].result = Render(loc[t].snap, loc[t].start_date,
                                       loc[t].end_date)

\* C6: with start and end supplied, the filtered table is exactly the rows
\* whose parsed call date d has start <= d <= end, rows with a missing or
\* unparsable call date being dropped; otherwise it is the current dataset.
DateSupplied(x) == "day" \in DOMAIN x
InRange(r, start_date, end_date) ==
    /\ "callDate" \in DOMAIN r
    /\ "day" \in DOMAIN r.callDate
    /\ start_date.day <= r.callDate.day
    /\ r.callDate.day <= end_date.day
C6_FilterKeepsInclusiveRange ==
    (KixieRan /\ cycle.copied) =>
        cycle.filtered.rows =
            IF DateSupplied(cycle.start_date) /\ DateSupplied(cycle.end_date)
            THEN SelectSeq(cycle.dataset.rows,
                     LAMBDA r : InRange(r, cycle.start_date, cycle.end_date))
            ELSE cycle.dataset.rows

\* C7: when the current non-empty dataset lacks a column, the cycle returns
\* the view it returns for the same dataset with that column present and
\* null in every row; it does not raise.
WithNullColumns(t) ==
    [t EXCEPT !.cols = @ \cup {"agent", "outcome", "duration", "callDate", "date"}]
C7_MissingColumnIsNullColumn ==
    (KixieRan /\ cycle.copied /\ ~Empty(cycle.dataset)) =>
        view = Render(WithNullColumns(cycle.dataset), cycle.start_date,
                      cycle.end_date)

\* C8: every talk-time string follows one rule: with minutes = s \div 60
\* it is "{minutes}m" when minutes <= 60, else "{minutes \div 60}h
\* {minutes % 60}m"; for the KPI s is the total duration of the filtered
\* table, for a table row the agent's total duration.
TalkTimeRule(s) ==
    IF s \div 60 <= 60 THEN ToString(s \div 60) \o "m"
    ELSE ToString((s \div 60) \div 60) \o "h " \o ToString((s \div 60) % 60) \o "m"
RECURSIVE DurationOver(_, _)
DurationOver(rows, I) ==
    IF I = {} THEN 0
    ELSE LET i == CHOOSE j \in I : TRUE
         IN (IF "duration" \in DOMAIN rows[i] THEN rows[i].duration ELSE 0)
            + DurationOver(rows, I \ {i})
RowsOfAgent(rows, a) ==
    {i \in 1..Len(rows) : "agent" \in DOMAIN rows[i] /\ rows[i].agent = a}
C8_OneTalkTimeRule ==
    KixieAggregated =>
        LET rows == cycle.filtered.rows
        IN /\ view.talk_time = TalkTimeRule(DurationOver(rows, 1..Len(rows)))
           /\ \A i \in 1..Len(view.table.rows) :
                 view.table.rows[i].TalkTime =
                     TalkTimeRule(DurationOver(rows,
                         RowsOfAgent(rows, view.table.rows[i].Agent)))

\* C9: a connection rate of n connections in d calls is "0%" when d = 0 and
\* otherwise the tenth nearest to n/d*100, written with one decimal and "%".
Connected(rows, I) ==
    {i \in I : "outcome" \in DOMAIN rows[i]
               /\ rows[i].outcome \in {"connected", "answered", "success"}}
IsRate(str, n, d) ==
    IF d = 0 THEN str = "0%"
    ELSE \E t \in 0..1000 :
            /\ 2 * (1000 * n - t * d) <= d
            /\ 2 * (t * d - 1000 * n) <= d
            /\ str = ToString(t \div 10) \o "." \o ToString(t % 10) \o "%"
C9_RateIsNearestTenth ==
    /\ (app = "rate" /\ Ok(view)) => IsRate(view.connection_rate, loc.n, loc.d)
    /\ (KixieRan /\ Ok(view) /\ ~cycle.copied) => view.connection_rate = "0%"
    /\ KixieAggregated =>
        LET rows == cycle.filtered.rows
            all == 1..Len(rows)
        IN /\ IsRate(view.connection_rate,
                     Cardinality(Connected(rows, all)), Len(rows))
           /\ \A i \in 1..Len(view.table.rows) :
                 LET mine == RowsOfAgent(rows, view.table.rows[i].Agent)
                 IN IsRate(view.table.rows[i].ConnectionPct,
                           Cardinality(Connected(rows, mine)),
                           Cardinality(mine))
\* two connections in three calls were shown as 66.7%
C9_Witness ==
    /\ KixieAggregated /\ Len(cycle.filtered.rows) = 3
    /\ view.connection_rate = "66.7%"
\* C10: the per-agent table has exactly one row per distinct non-null agent
\* of the filtered table, with that agent's number of rows, number of rows
\* with a connected outcome and sum of durations, ordered by Connections
\* non-increasing; the three-record scenario gives A: 2, 1, 120 and
\* B: 1, 1, 300.
AgentsOf(rows) ==
    {rows[i].agent : i \in {j \in 1..Len(rows) : "agent" \in DOMAIN rows[j]}}
Scenario ==
    /\ Len(cycle.dataset.rows) = 3
    /\ \A i \in 1..3 : cycle.dataset.rows[i].id = i
    /\ ~DateSupplied(cycle.start_date)
C10_AgentTable ==
    KixieAggregated =>
        LET rows == cycle.filtered.rows
            tab == view.table.rows
        IN /\ {tab[i].Agent : i \in 1..Len(tab)} = AgentsOf(rows)
           /\ Len(tab) = Cardinality(AgentsOf(rows))
           /\ \A i \in 1..Len(tab) :
                 LET mine == RowsOfAgent(rows, tab[i].Agent)
                 IN /\ tab[i].TotalCalls = Cardinality(mine)
                    /\ tab[i].Connections = Cardinality(Connected(rows, mine))
                    /\ tab[i].TotalDuration = DurationOver(rows, mine)
           /\ \A i \in 1..Len(tab), j \in 1..Len(tab) :
                 i < j => tab[i].Connections >= tab[j].Connections
           /\ Scenario =>
                 /\ Len(tab) = 2
                 /\ \E i \in 1..2 :
                       /\ tab[i].Agent = "A" /\ tab[i].TotalCalls = 2
                       /\ tab[i].Connections = 1 /\ tab[i].TotalDuration = 120
                 /\ \E i \in 1..2 :
                       /\ tab[i].Agent = "B" /\ tab[i].TotalCalls = 1
                       /\ tab[i].Connections = 1 /\ tab[i].TotalDuration = 300
\* the three-record scenario was aggregated
C10_Witness == KixieAggregated /\ Scenario /\ Len(view.table.rows) = 2

\* C11: the grouped counts of a column hold one entry per distinct non-null
\* value with the exact number of rows holding it, ordered by count
\* non-increasing and cut to the first top_n entries (10 agents, 15 setters,
\* 15 reps; no cut for outcome, team and lead source), no omitted value
\* having a larger count than an included one; without a cut the counts sum
\* to the number of rows whose value is non-null.
Holding(rows, col, v) ==
    {i \in 1..Len(rows) : col \in DOMAIN rows[i] /\ rows[i][col] = v}
ValuesIn(rows, col) ==
    {rows[i][col] : i \in {j \in 1..Len(rows) : col \in DOMAIN rows[j]}}
Smaller(a, b) == IF a <= b THEN a ELSE b
IsGroupCounts(data, rows, col, top_n) ==
    LET shown == {data[i].key : i \in 1..Len(data)}
        cut == "n" \in DOMAIN top_n
    IN /\ shown \subseteq ValuesIn(rows, col)
       /\ \A i \in 1..Len(data), j \in 1..Len(data) :
             i # j => data[i].key # data[j].key
       /\ \A i \in 1..Len(data) :
             data[i].count = Cardinality(Holding(rows, col, data[i].key))
       /\ \A i \in 1..Len(data), j \in 1..Len(data) :
             i < j => data[i].count >= data[j].count
       /\ Len(data) = IF cut
                      THEN Smaller(top_n.n, Cardinality(ValuesIn(rows, col)))
                      ELSE Cardinality(ValuesIn(rows, col))
       /\ \A v \in ValuesIn(rows, col) \ shown : \A i \in 1..Len(data) :
             Cardinality(Holding(rows, col, v)) <= data[i].count
       /\ ~cut =>
             SumSeq([i \in 1..Len(data) |-> data[i].count])
                 = Cardinality({i \in 1..Len(rows) : col \in DOMAIN rows[i]})
C11_GroupedCounts ==
    /\ (app = "counts" /\ Ok(view)) =>
          IsGroupCounts(view.data, df.rows, "agent", loc.top_n)
    /\ KixieAggregated =>
          /\ IsGroupCounts(view.fig_outcome.data, cycle.filtered.rows,
                           "outcome", None)
          /\ IsGroupCounts(view.fig_agent.data, cycle.filtered.rows,
                           "agent", [n |-> 10])
    /\ (app = "sales" /\ cycle.ran /\ Ok(view)) =>
          /\ IsGroupCounts(view.fig_setter.data, df.rows, "setter", [n |-> 15])
          /\ IsGroupCounts(view.fig_team.data, df.rows, "team", None)
          /\ IsGroupCounts(view.fig_source.data, df.rows, "leadSource", None)
          /\ IsGroupCounts(view.fig_rep.data, df.rows, "rep", [n |-> 15])
\* sixteen values, the last one held by two rows, were cut to the first 15
\* entries with that value leading
C11_Witness ==
    /\ app = "counts" /\ Ok(view)
    /\ Cardinality(ValuesIn(df.rows, "agent")) = 16
    /\ Len(view.data) = 15
    /\ view.data[1].key = 16 /\ view.data[1].count = 2

\* C12: the tag ranking of the opportunities dashboard gives each tag the
\* total number of its occurrences over the tag lists of all rows (a row with
\* a null tags value contributes nothing), ordered by count non-increasing
\* and cut to the 12 most frequent tags; rows tagged [new], [new, hot], [hot]
\* give new:2 and hot:2 in either order.
TagLists(rows) ==
    [i \in {j \in 1..Len(rows) : "tags" \in DOMAIN rows[j]} |-> rows[i].tags]
TagsIn(rows) ==
    UNION {{TagLists(rows)[i][p] : p \in 1..Len(TagLists(rows)[i])} :
              i \in DOMAIN TagLists(rows)}
Occurrences(rows, tag) ==
    Cardinality({ip \in UNION {{<<i, p>> : p \in 1..Len(TagLists(rows)[i])} :
                                  i \in DOMAIN TagLists(rows)} :
                    TagLists(rows)[ip[1]][ip[2]] = tag})
IsTagRanking(data, rows) ==
    LET shown == {data[i].key : i \in 1..Len(data)}
    IN /\ shown \subseteq TagsIn(rows)
       /\ \A i \in 1..Len(data), j \in 1..Len(data) :
             i # j => data[i].key # data[j].key
       /\ \A i \in 1..Len(data) :
             data[i].count = Occurrences(rows, data[i].key)
       /\ \A i \in 1..Len(data), j \in 1..Len(data) :
             i < j => data[i].count >= data[j].count
       /\ Len(data) = Smaller(12, Cardinality(TagsIn(rows)))
       /\ \A tag \in TagsIn(rows) \ shown : \A i \in 1..Len(data) :
             Occurrences(rows, tag) <= data[i].count
NewHotRows(rows) ==
    /\ Len(rows) = 3
    /\ \A i \in 1..3 : "tags" \in DOMAIN rows[i]
    /\ rows[1].tags = <<"new">>
    /\ rows[2].tags = <<"new", "hot">>
    /\ rows[3].tags = <<"hot">>
C12_TagRanking ==
    /\ (app = "tags" /\ Ok(view)) => IsTagRanking(view.data, df.rows)
    /\ (app = "sales" /\ cycle.ran /\ Ok(view)) =>
          /\ IsTagRanking(view.fig_pipeline.data, df.rows)
          /\ NewHotRows(df.rows) =>
                /\ Len(view.fig_pipeline.data) = 2
                /\ {view.fig_pipeline.data[i] : i \in 1..2}
                      = {[key |-> "new", count |-> 2],
                         [key |-> "hot", count |-> 2]}
\* thirteen tags, the last one also in the third list, were cut to twelve
\* with that tag leading
C12_Witness ==
    /\ app = "tags" /\ Ok(view)
    /\ Cardinality(TagsIn(df.rows)) = 13
    /\ Len(view.data) = 12
    /\ view.data[1] = [key |-> "t13", count |-> 2]
\* the opportunities dashboard has ranked the rows tagged [new], [new, hot],
\* [hot]
C12_NewHotRanked ==
    /\ app = "sales" /\ cycle.ran /\ Ok(view)
    /\ NewHotRows(df.rows)

\* C13: in every view the call dashboard returns, for every dataset and date
\* range, the Connections KPI is at most the Total Calls KPI, and in every
\* row of the per-agent table Connections is at most Total Calls.
C13_ConnectionsAtMostCalls ==
    (KixieRan /\ Ok(view)) =>
        /\ \E n \in 0..Len(cycle.dataset.rows) : \E m \in 0..n :
              /\ view.total_calls = ToString(n)
              /\ view.connections = ToString(m)
        /\ "rows" \in DOMAIN view.table =>
              \A i \in 1..Len(view.table.rows) :
                  view.table.rows[i].Connections
                      <= view.table.rows[i].TotalCalls
\* two calls of which one connected, both of one agent
C13_Witness ==
    /\ KixieAggregated
    /\ view.total_calls = "2" /\ view.connections = "1"
    /\ \E i \in 1..Len(view.table.rows) :
          /\ view.table.rows[i].TotalCalls = 2
          /\ view.table.rows[i].Connections = 1

\* C14: in the call dashboard, once every trigger so far has returned, the
\* current dataset is the result of the fetch made by the most recent
\* trigger that had refresh_clicks > 0 or auto_refresh > 0 (the empty dataset
\* when that fetch failed, whatever an earlier fetch had brought), or the
\* start-up dataset when no such trigger has run; a trigger with both
\* counters at 0 leaves the current dataset unchanged; and whenever the
\* current dataset is empty the returned view is exactly ("0", "0", "0%",
\* "0m", empty figure, empty figure, "No data").
Undated(row) == Drop(Drop(row, "callDate"), "date")
\* t holds the records of the returned frame r, one row each in their order,
\* every field but the call date as fetched
SameRecords(t, r) ==
    /\ Len(t.rows) = Len(r.rows)
    /\ \A i \in 1..Len(r.rows) : Undated(t.rows[i]) = Undated(r.rows[i])
    /\ r.cols \subseteq t.cols
    /\ t.cols \ r.cols \subseteq {"date"}
DatasetFollowsLastFetch ==
    app = "kixie" =>
        /\ (\A t \in DOMAIN pc : pc'[t] \in {"idle", "done"}) =>
              /\ \A t \in DOMAIN pc :
                    loc'[t].latest =>
                        /\ SameRecords(df', loc'[t].returned)
                        /\ loc'[t].failed => (df'.rows = <<>> /\ df'.cols = {})
              /\ (cycle'.ran /\ Empty(df')) =>
                    view' = [error |-> "none", total_calls |-> "0",
                             connections |-> "0", connection_rate |-> "0%",
                             talk_time |-> "0m",
                             fig_outcome |-> [kind |-> "empty"],
                             fig_agent |-> [kind |-> "empty"],
                             table |-> [text |-> "No data"]]
        /\ \A t \in DOMAIN pc :
              (pc'[t] # pc[t] /\ loc'[t].refresh_clicks = 0
                 /\ loc'[t].auto_refresh = 0) => df' = df
C14_DatasetFollowsLastFetch == [][DatasetFollowsLastFetch]_vars

====
